---- MODULE Spec2Model ----
(***************************************************************************)
(* Model of the SchedulerMark benchmark runner: run-benchmark.ts (main),   *)
(* benchmarkUtils.ts (callOpenRouter, parseVerdict, fileExists) and        *)
(* benchmarkConfig.ts (MODELS, slugify).                                   *)
(*                                                                         *)
(* A JavaScript string is modelled as a sequence of one-character strings  *)
(* (<<"Y","E","S">> is "YES"), so that split, trim, toUpperCase, includes  *)
(* and the template literals are computed character by character.          *)
(***************************************************************************)
EXTENDS Naturals, Sequences, FiniteSets

VARIABLES
    critFile,     \* data/critiques.json: [kind, items]
    solFile,      \* solutions/<slug>.html, by slug: [exists, text]
    pc,           \* position of main() in the current process
    run,          \* number of processes started so far
    faults,       \* number of failures, process stops and unusual inputs so far
    critiques,    \* main: let critiques: Critique[]
    donePairs,    \* main: const donePairs = new Set<string>()
    solutions,    \* main: const solutions: Record<string, SolutionRecord> (insertion order)
    i,            \* solver loop index (1-based; the code's i + 1)
    solverEntries,  \* line 434: Object.entries(solutions) when the solver loop ends
    si,           \* judge phase: index into solverEntries
    ji,           \* judge phase: index into JUDGE_MODELS
    pending,      \* the value a pending await has produced (reply text or error)
    abortAt,      \* the step whose failure rejected main() ("" when none)
    loadKind,     \* history: what the load step found in critiques.json
    loadedItems,  \* history: the array adopted by the load step
    warned,       \* history: the load step logged its warning
    solverCalls,  \* history: models a solver generation call was issued for, this run
    judgeCalls,   \* history: pairs a judge generation call was issued for, this run
    outcome,      \* history: per solver index, how its unit ended in this run
    visited,      \* history: pairs whose judge unit was completed or skipped, this run
    genFailed,    \* history: [pair, message] of the judge calls that failed, this run
    wroteSol,     \* history: models whose artifact was written, this run
    nLoaded,      \* history: length of critiques when the load step ended
    clean,        \* history: critiques.json was absent or an empty array initially
    catalog,      \* benchmarkConfig.ts: the model list this build is configured with
    callLog,      \* history: the generation calls issued in this run, in order
    outstanding,  \* history: generation calls issued and not yet returned or failed
    nSaved,       \* history: length of critiques at the last rewrite that returned
    prior,        \* history: records persisted by the earlier processes, with their texts
    owner,        \* history: by slug, the model whose unit wrote the artifact
    raw,          \* parseVerdict: the input text
    parsed        \* parseVerdict: the result, [done, verdict, explanation]

progVars == <<critFile, solFile, pc, run, faults, critiques, donePairs, solutions,
              solverEntries, i, si, ji, pending, abortAt, loadKind, loadedItems,
              warned, solverCalls, judgeCalls, outcome, visited, genFailed, wroteSol,
              nLoaded, clean, catalog, callLog, outstanding, nSaved, prior, owner>>
parseVars == <<raw, parsed>>
callVars == <<callLog, outstanding>>
vars == <<progVars, parseVars>>

----------------------------------------------------------------------------
(* Bounds *)

NumModels == 2      \* length of the prefix of the configured model list that is run
MaxRuns == 2        \* processes started in one behaviour
MaxFaults == 2      \* failures, process stops and unusual inputs in one behaviour
MaxLen == 5         \* length of the texts parseVerdict is applied to

----------------------------------------------------------------------------
(* JavaScript string primitives *)

LowerLetters == <<"a","b","c","d","e","f","g","h","i","j","k","l","m",
                  "n","o","p","q","r","s","t","u","v","w","x","y","z">>
UpperLetters == <<"A","B","C","D","E","F","G","H","I","J","K","L","M",
                  "N","O","P","Q","R","S","T","U","V","W","X","Y","Z">>

Digits == <<"0","1","2","3","4","5","6","7","8","9">>

\* String.prototype.trim removes white space and line terminators
IsSpace(c) == c \in {" ", "\t", "\n", "\r"}

\* the case mappings of the letters, as tables
UpperOf ==
    [c \in {LowerLetters[k] : k \in 1..26} |->
        UpperLetters[CHOOSE k \in 1..26 : LowerLetters[k] = c]]

LowerOf ==
    [c \in {UpperLetters[k] : k \in 1..26} |->
        LowerLetters[CHOOSE k \in 1..26 : UpperLetters[k] = c]]

UpperChar(c) == IF c \in DOMAIN UpperOf THEN UpperOf[c] ELSE c

LowerChar(c) == IF c \in DOMAIN LowerOf THEN LowerOf[c] ELSE c

toUpperCase(s) == [k \in 1..Len(s) |-> UpperChar(s[k])]

toLowerCase(s) == [k \in 1..Len(s) |-> LowerChar(s[k])]

RECURSIVE trimStart(_)
trimStart(s) ==
    IF s # <<>> /\ IsSpace(Head(s)) THEN trimStart(Tail(s)) ELSE s

RECURSIVE trimEnd(_)
trimEnd(s) ==
    IF s # <<>> /\ IsSpace(s[Len(s)]) THEN trimEnd(SubSeq(s, 1, Len(s) - 1)) ELSE s

trim(s) == trimEnd(trimStart(s))

\* String.prototype.includes
includes(s, sub) ==
    \E k \in 0..(Len(s) - Len(sub)) : SubSeq(s, k + 1, k + Len(sub)) = sub

\* raw.split(/\r?\n/): cur is the line being accumulated
RECURSIVE splitFrom(_, _)
splitFrom(s, cur) ==
    IF s = <<>> THEN <<cur>>
    ELSE IF Head(s) = "\n" THEN <<cur>> \o splitFrom(Tail(s), <<>>)
    ELSE IF Head(s) = "\r" /\ Len(s) >= 2 /\ s[2] = "\n"
         THEN <<cur>> \o splitFrom(SubSeq(s, 3, Len(s)), <<>>)
    ELSE splitFrom(Tail(s), Append(cur, Head(s)))

splitLines(s) == splitFrom(s, <<>>)

\* Array.prototype.join("\n")
RECURSIVE joinLines(_)
joinLines(lines) ==
    IF lines = <<>> THEN <<>>
    ELSE IF Len(lines) = 1 THEN lines[1]
    ELSE lines[1] \o <<"\n">> \o joinLines(Tail(lines))

----------------------------------------------------------------------------
(* benchmarkUtils.ts: parseVerdict *)

\* lines.findIndex((l) => l.length > 0), 1-based; 0 stands for the code's -1
findIndexNonEmpty(lines) ==
    IF \E k \in 1..Len(lines) : Len(lines[k]) > 0
    THEN CHOOSE k \in 1..Len(lines) :
            /\ Len(lines[k]) > 0
            /\ \A h \in 1..(k - 1) : Len(lines[h]) = 0
    ELSE 0

\* mutant: the default branch answers YES
verdictOf_DefaultYes(first) ==
    IF first = <<"Y","E","S">> THEN "YES"
    ELSE IF first = <<"N","O">> THEN "NO" ELSE "YES"

\* first === "YES" ? "YES" : first === "NO" ? "NO" : "NO"
verdictOf(first) ==
    IF first = <<"Y","E","S">> THEN "YES"
    ELSE IF first = <<"N","O">> THEN "NO" ELSE "NO"

\* mutant: lines.slice(idx), the verdict line stays in the explanation
sliceAfter_Inclusive(lines, idx) == SubSeq(lines, idx, Len(lines))

\* lines.slice(idx + 1) (idx 1-based here: the lines after lines[idx])
sliceAfter(lines, idx) == SubSeq(lines, idx + 1, Len(lines))

EmptyResponse == <<"E","m","p","t","y"," ","r","e","s","p","o","n","s","e">>

parseVerdict(text) ==
    LET split == splitLines(text)
        lines == [k \in 1..Len(split) |-> trim(split[k])]
        idx   == findIndexNonEmpty(lines)
    IN  IF idx = 0
        THEN [verdict |-> "ERROR", explanation |-> EmptyResponse]
        ELSE [verdict |-> verdictOf(toUpperCase(lines[idx])),
              explanation |-> trim(joinLines(sliceAfter(lines, idx)))]

----------------------------------------------------------------------------
(* benchmarkConfig.ts *)

\* The configured identifiers, abbreviated to provider/model:
\* google/gemini-3-pro-preview, anthropic/claude-sonnet-4.5, openai/gpt-5.1,
\* anthropic/claude-opus-4.1, x-ai/grok-4, qwen/qwen3-max, openai/gpt-5.1-codex,
\* moonshotai/kimi-k2-thinking
AllModels == << <<"g","/","g">>, <<"a","/","s">>, <<"o","/","5">>, <<"a","/","o">>,
                <<"x","/","g">>, <<"q","/","q">>, <<"o","/","c">>, <<"m","/","k">> >>

\* the list as configured: a prefix of the identifiers above
ConfiguredModels == SubSeq(AllModels, 1, NumModels)

MODELS == catalog

\* other lists the constant can be edited to hold, identifiers being opaque strings:
\* identifiers that are decimal numbers, in descending order ("2", "1")
IndexCatalog == [k \in 1..NumModels |-> <<Digits[NumModels - k + 2]>>]

RECURSIVE Bars(_)
Bars(k) == IF k = 1 THEN <<"a">> ELSE Bars(k - 1) \o <<"|", "a">>

\* identifiers that contain the separator of the pair key ("a", "a|a")
BarCatalog == [k \in 1..NumModels |-> Bars(k)]

Separators == <<"/", ":", "_">>

\* identifiers that differ in a character slugify replaces ("a/b", "a:b")
SlugCatalog == [k \in 1..NumModels |-> <<"a", Separators[((k - 1) % 3) + 1], "b">>]

\* the same identifier listed twice
DupCatalog == [k \in 1..NumModels |-> AllModels[(k + 1) \div 2]]

OtherCatalogs == {IndexCatalog, BarCatalog, SlugCatalog, DupCatalog}

SOLVER_MODELS == MODELS

JUDGE_MODELS == MODELS

\* model.replace(/[/:]/g, "_")
slugify(model) ==
    [k \in 1..Len(model) |-> IF model[k] \in {"/", ":"} THEN "_" ELSE model[k]]

Range(seq) == {seq[k] : k \in 1..Len(seq)}

Slugs == {slugify(m) : m \in Range(SOLVER_MODELS)}

----------------------------------------------------------------------------
(* Values *)

NoFile == [exists |-> FALSE, text |-> <<>>]

FileOf(text) == [exists |-> TRUE, text |-> text]

AbsentCrit == [kind |-> "absent", items |-> <<>>]

\* JSON.stringify(critiques, null, 2) written to critiques.json
stringify(records) == [kind |-> "array", items |-> records]

\* an element of a parsed array that has no solver or judge identifier
\* (null, {}, a record whose identifiers are empty)
MalformedElem ==
    [solverModel |-> <<>>, solverSlug |-> <<>>, judgeModel |-> <<>>,
     verdict |-> "", explanation |-> <<>>]

\* JavaScript truthiness of a string or missing field
Truthy(s) == s # <<>>

\* `${solverModel}|${judgeModel}`
pairKey(solverModel, judgeModel) == solverModel \o <<"|">> \o judgeModel

Critique(solverModel, slug, judgeModel, verdict, explanation) ==
    [solverModel |-> solverModel, solverSlug |-> slug, judgeModel |-> judgeModel,
     verdict |-> verdict, explanation |-> explanation]

\* messages of the errors callOpenRouter throws
requestFailure(model) == <<"s","t","a","t","u","s"," ">> \o model

shapeMismatch(model) == <<"s","h","a","p","e"," ">> \o model

CallFailures(model) == {requestFailure(model), shapeMismatch(model)}

\* message of a failed file operation
IoError == <<"E","I","O">>

\* String(err) of an Error with the given message
StringOfError(message) == <<"E","r","r","o","r",":"," ">> \o message

\* texts the generation capability returns to a solver call; the first is the
\* usual one, each other one counts against MaxFaults
UsualSolverReply == <<"<","H","T","M","L">>

SolverReplies == { UsualSolverReply, <<"x">>, <<>> }

\* texts the generation capability returns to a judge call; the first is the
\* usual one, each other one counts against MaxFaults
UsualJudgeReply == <<"y","e","s","\n","o","k">>

JudgeReplies == { UsualJudgeReply, <<"n","o">>, <<>> }

\* contents of critiques.json before the first run: absent or an empty array
InitialCritFiles == { AbsentCrit, stringify(<<>>) }

\* contents of critiques.json that are no sequence of Critique-shaped records:
\* unparseable, parseable but no array, an array with an element without identifiers
ForeignCritFiles ==
    { [kind |-> "garbage", items |-> <<>>],
      [kind |-> "nonarray", items |-> <<>>],
      stringify(<<MalformedElem>>),
      stringify(<<Critique(MODELS[1], slugify(MODELS[1]), MODELS[1], "YES", <<>>),
                  MalformedElem>>) }

----------------------------------------------------------------------------
(* run-benchmark.ts: main *)

HtmlMarker == <<"<","h","t","m","l">>

\* mutant: the marker is looked for without toLowerCase
isValidSolution_CaseSensitive(html) ==
    LET trimmedHtml == trim(html)
    IN  ~ (Len(trimmedHtml) = 0 \/ ~ includes(trimmedHtml, HtmlMarker))

\* lines 345-351: the existing artifact is neither empty nor markerless
isValidSolution(html) ==
    LET trimmedHtml == trim(html)
    IN  ~ (Len(trimmedHtml) = 0 \/ ~ includes(toLowerCase(trimmedHtml), HtmlMarker))

\* solutions[model] = { model, slug, html }: the keys in the order they were
\* created (an assignment to an existing key keeps the key's place); the order
\* in which they are enumerated is ObjectEntries
putSolution(sols, model, slug, html) ==
    LET rec == [model |-> model, slug |-> slug, html |-> html]
    IN  IF \E k \in 1..Len(sols) : sols[k].model = model
        THEN [k \in 1..Len(sols) |-> IF sols[k].model = model THEN rec ELSE sols[k]]
        ELSE Append(sols, rec)

\* mutant: the key is built judge first
indexOf_Swapped(items) ==
    { pairKey(items[k].judgeModel, items[k].solverModel) :
        k \in {h \in 1..Len(items) :
                  Truthy(items[h].solverModel) /\ Truthy(items[h].judgeModel)} }

\* lines 312-316: the membership index built from the adopted array
indexOf(items) ==
    { pairKey(items[k].solverModel, items[k].judgeModel) :
        k \in {h \in 1..Len(items) :
                  Truthy(items[h].solverModel) /\ Truthy(items[h].judgeModel)} }

\* mutant: the load step never adopts what the file holds
loadCritiques_Fresh(file) ==
    [critiques |-> <<>>, donePairs |-> {}, warned |-> FALSE]

\* mutant: the catch swallows the parse error without a warning
loadCritiques_Silent(file) ==
    IF file.kind = "array"
    THEN [critiques |-> file.items, donePairs |-> indexOf(file.items), warned |-> FALSE]
    ELSE [critiques |-> <<>>, donePairs |-> {}, warned |-> FALSE]

\* lines 306-329: what the load step leaves in memory
loadCritiques(file) ==
    IF file.kind = "array"
    THEN [critiques |-> file.items, donePairs |-> indexOf(file.items), warned |-> FALSE]
    ELSE IF file.kind = "garbage"
    THEN [critiques |-> <<>>, donePairs |-> {}, warned |-> TRUE]
    ELSE [critiques |-> <<>>, donePairs |-> {}, warned |-> FALSE]

\* history: a generation call, as logged when it is issued
\* (reply: <<>>, and <<text>> once a solver call has returned text)
SolverCall(model) ==
    [kind |-> "solver", solver |-> model, judge |-> <<>>, reply |-> <<>>]

JudgeCall(solver, judge) ==
    [kind |-> "judge", solver |-> solver, judge |-> judge, reply |-> <<>>]

\* history: the call issued last has returned text
Answered(log, text) == [log EXCEPT ![Len(log)].reply = <<text>>]

IsWellFormed(items) ==
    \A k \in 1..Len(items) :
        Truthy(items[k].solverModel) /\ Truthy(items[k].judgeModel)

\* history: classification of the file the load step found
kindOf(file) ==
    IF file.kind = "array"
    THEN IF IsWellFormed(file.items) THEN "array" ELSE "badarray"
    ELSE file.kind

NotParsed == [done |-> FALSE, verdict |-> "", explanation |-> <<>>]

NoOutcome == [k \in 1..Len(SOLVER_MODELS) |-> "none"]

Running == {"load", "solve", "solveCall", "solveWrite", "judge", "judgeCall",
            "judgeWrite", "judgeCatch", "judgeCatchWrite"}

\* before the first process: no artifact, no run, nothing in memory
Boot ==
    /\ critFile \in InitialCritFiles
    /\ solFile = [s \in Slugs |-> NoFile]
    /\ pc = "idle"
    /\ run = 0
    /\ faults = 0
    /\ critiques = <<>>
    /\ donePairs = {}
    /\ solutions = <<>>
    /\ solverEntries = <<>>
    /\ i = 1
    /\ si = 1
    /\ ji = 1
    /\ pending = <<>>
    /\ abortAt = ""
    /\ loadKind = "none"
    /\ loadedItems = <<>>
    /\ warned = FALSE
    /\ solverCalls = {}
    /\ judgeCalls = {}
    /\ outcome = NoOutcome
    /\ visited = {}
    /\ genFailed = {}
    /\ wroteSol = {}
    /\ nLoaded = 0
    /\ clean = TRUE
    /\ callLog = <<>>
    /\ outstanding = 0
    /\ nSaved = 0
    /\ prior = {}
    /\ owner = [s \in Slugs |-> <<>>]
    /\ raw = <<>>
    /\ parsed = NotParsed

Init ==
    /\ catalog = ConfiguredModels
    /\ Boot

\* history: the records this process has pushed and a rewrite that returned has
\* persisted, each with the text its judge was given
Persisted ==
    { [rec |-> critiques[k],
       text |-> (CHOOSE e \in Range(solutions) : e.model = critiques[k].solverModel).html]
      : k \in (nLoaded + 1)..nSaved }

\* a new process: every variable of main() starts afresh
FreshMemory ==
    /\ critiques' = <<>>
    /\ donePairs' = {}
    /\ solutions' = <<>>
    /\ solverEntries' = <<>>
    /\ i' = 1
    /\ si' = 1
    /\ ji' = 1
    /\ pending' = <<>>
    /\ abortAt' = ""
    /\ loadKind' = "none"
    /\ loadedItems' = <<>>
    /\ warned' = FALSE
    /\ solverCalls' = {}
    /\ judgeCalls' = {}
    /\ outcome' = NoOutcome
    /\ visited' = {}
    /\ genFailed' = {}
    /\ wroteSol' = {}
    /\ nLoaded' = 0
    /\ callLog' = <<>>
    /\ outstanding' = 0
    /\ nSaved' = 0
    /\ prior' = prior \cup Persisted

\* before the first run, critiques.json is left behind by something else
ForeignFile ==
    /\ pc = "idle"
    /\ run = 0
    /\ critFile = AbsentCrit
    /\ faults < MaxFaults
    /\ faults' = faults + 1
    /\ critFile' \in ForeignCritFiles
    /\ clean' = FALSE
    /\ UNCHANGED <<solFile, pc, run, critiques, donePairs, solutions, i, si, ji,
                   pending, abortAt, loadKind, loadedItems, warned, solverCalls,
                   judgeCalls, outcome, visited, genFailed, wroteSol, nLoaded, parseVars,
                   catalog, solverEntries, callVars, nSaved, prior, owner>>

\* lines 274-299: the process starts, ensureDirs, the log file and meta.json succeed
StartRun ==
    /\ pc \in {"idle", "done", "aborted"}
    /\ run < MaxRuns
    /\ run' = run + 1
    /\ pc' = "load"
    /\ FreshMemory
    /\ UNCHANGED <<critFile, solFile, faults, clean, parseVars, catalog, owner>>

\* lines 301-335: load critiques.json, then announce the solver phase
LoadCritiques ==
    /\ pc = "load"
    /\ LET r == loadCritiques(critFile)
       IN  /\ critiques' = r.critiques
           /\ donePairs' = r.donePairs
           /\ warned' = r.warned
           /\ nLoaded' = Len(r.critiques)
           /\ nSaved' = Len(r.critiques)
    /\ loadKind' = kindOf(critFile)
    /\ loadedItems' = IF critFile.kind = "array" THEN critFile.items ELSE <<>>
    /\ pc' = "solve"
    /\ i' = 1
    /\ UNCHANGED <<critFile, solFile, run, faults, solutions, si, ji, pending, abortAt,
                   solverCalls, judgeCalls, outcome, visited, genFailed, wroteSol,
                   clean, parseVars, catalog, solverEntries, callVars, prior, owner>>

----------------------------------------------------------------------------
(* Solver phase, lines 336-431 *)

curModel == SOLVER_MODELS[i]

curOutPath == slugify(curModel)

InSolverLoop == pc = "solve" /\ i <= Len(SOLVER_MODELS) /\ Truthy(curModel)

\* mutant: any existing artifact counts as present
solutionPresent_ExistsOnly(file) == file.exists

\* lines 343-367: fileExists(outPath) and the artifact is valid
solutionPresent(file) == file.exists /\ isValidSolution(file.text)

\* lines 343-365: the artifact is present: load it and skip the call
SolveSkip ==
    /\ InSolverLoop
    /\ solutionPresent(solFile[curOutPath])
    /\ solutions' = putSolution(solutions, curModel, slugify(curModel),
                                solFile[curOutPath].text)
    /\ outcome' = [outcome EXCEPT ![i] = "skipped"]
    /\ i' = i + 1
    /\ UNCHANGED <<critFile, solFile, pc, run, faults, critiques, donePairs, si, ji,
                   pending, abortAt, loadKind, loadedItems, warned, solverCalls,
                   judgeCalls, visited, genFailed, wroteSol, nLoaded, clean, parseVars,
                   catalog, solverEntries, callVars, nSaved, prior, owner>>

\* lines 369-378: the artifact is absent, empty or markerless: callOpenRouter is issued
SolveIssue ==
    /\ InSolverLoop
    /\ ~ solutionPresent(solFile[curOutPath])
    /\ pc' = "solveCall"
    /\ solverCalls' = solverCalls \cup {curModel}
    /\ callLog' = Append(callLog, SolverCall(curModel))
    /\ outstanding' = outstanding + 1
    /\ UNCHANGED <<critFile, solFile, run, faults, critiques, donePairs, solutions,
                   i, si, ji, pending, abortAt, loadKind, loadedItems, warned,
                   judgeCalls, outcome, visited, genFailed, wroteSol, nLoaded, clean,
                   parseVars, catalog, solverEntries, nSaved, prior, owner>>

\* lines 376-419: the call returns text (logged, warned about when markerless)
SolveReply ==
    /\ pc = "solveCall"
    /\ \E html \in SolverReplies :
          /\ html # UsualSolverReply => faults < MaxFaults
          /\ faults' = IF html = UsualSolverReply THEN faults ELSE faults + 1
          /\ pending' = html
          /\ callLog' = Answered(callLog, html)
    /\ pc' = "solveWrite"
    /\ outstanding' = outstanding - 1
    /\ UNCHANGED <<critFile, solFile, run, critiques, donePairs, solutions,
                   i, si, ji, abortAt, loadKind, loadedItems, warned, solverCalls,
                   judgeCalls, outcome, visited, genFailed, wroteSol, nLoaded, clean,
                   parseVars, catalog, solverEntries, nSaved, prior, owner>>

\* mutant: a text without the marker is dropped instead of written and kept
SolveWrite_ValidOnly ==
    /\ pc = "solveWrite"
    /\ IF isValidSolution(pending)
       THEN /\ solFile' = [solFile EXCEPT ![curOutPath] = FileOf(pending)]
            /\ solutions' = putSolution(solutions, curModel, slugify(curModel), pending)
            /\ owner' = [owner EXCEPT ![curOutPath] = curModel]
            /\ wroteSol' = wroteSol \cup {curModel}
       ELSE UNCHANGED <<solFile, solutions, owner, wroteSol>>
    /\ outcome' = [outcome EXCEPT ![i] = "solved"]
    /\ pending' = <<>>
    /\ i' = i + 1
    /\ pc' = "solve"
    /\ UNCHANGED <<critFile, run, faults, critiques, donePairs, si, ji, abortAt,
                   loadKind, loadedItems, warned, solverCalls, judgeCalls, visited,
                   genFailed, nLoaded, clean, parseVars,
                   catalog, solverEntries, callVars, nSaved, prior>>

\* lines 421-422: writeFile(outPath, html), solutions[model] = ...
SolveWrite ==
    /\ pc = "solveWrite"
    /\ solFile' = [solFile EXCEPT ![curOutPath] = FileOf(pending)]
    /\ solutions' = putSolution(solutions, curModel, slugify(curModel), pending)
    /\ owner' = [owner EXCEPT ![curOutPath] = curModel]
    /\ wroteSol' = wroteSol \cup {curModel}
    /\ outcome' = [outcome EXCEPT ![i] = "solved"]
    /\ pending' = <<>>
    /\ i' = i + 1
    /\ pc' = "solve"
    /\ UNCHANGED <<critFile, run, faults, critiques, donePairs, si, ji, abortAt,
                   loadKind, loadedItems, warned, solverCalls, judgeCalls, visited,
                   genFailed, nLoaded, clean, parseVars,
                   catalog, solverEntries, callVars, nSaved, prior>>

\* mutant: the failure leaves the solver loop
SolveCallFail_Break ==
    /\ pc = "solveCall"
    /\ faults < MaxFaults
    /\ faults' = faults + 1
    /\ outcome' = [outcome EXCEPT ![i] = "failed"]
    /\ i' = Len(SOLVER_MODELS) + 1
    /\ pc' = "solve"
    /\ outstanding' = outstanding - 1
    /\ UNCHANGED <<critFile, solFile, run, critiques, donePairs, solutions, si, ji,
                   pending, abortAt, loadKind, loadedItems, warned, solverCalls,
                   judgeCalls, visited, genFailed, wroteSol, nLoaded, clean, parseVars,
                   catalog, solverEntries, callLog, nSaved, prior, owner>>

\* lines 76-93 of benchmarkUtils.ts, 423-430: the call throws, the catch logs it
SolveCallFail ==
    /\ pc = "solveCall"
    /\ faults < MaxFaults
    /\ faults' = faults + 1
    /\ outcome' = [outcome EXCEPT ![i] = "failed"]
    /\ i' = i + 1
    /\ pc' = "solve"
    /\ outstanding' = outstanding - 1
    /\ UNCHANGED <<critFile, solFile, run, critiques, donePairs, solutions, si, ji,
                   pending, abortAt, loadKind, loadedItems, warned, solverCalls,
                   judgeCalls, visited, genFailed, wroteSol, nLoaded, clean, parseVars,
                   catalog, solverEntries, callLog, nSaved, prior, owner>>

IsDigit(c) == \E d \in 1..10 : Digits[d] = c

DigitValue(c) == (CHOOSE d \in 1..10 : Digits[d] = c) - 1

\* a and b are digit strings of the same length, and a is the smaller number
RECURSIVE digitsLess(_, _)
digitsLess(a, b) ==
    /\ a # <<>>
    /\ \/ DigitValue(Head(a)) < DigitValue(Head(b))
       \/ Head(a) = Head(b) /\ digitsLess(Tail(a), Tail(b))

\* numeric order of canonical decimal strings
numericLess(a, b) ==
    Len(a) < Len(b) \/ (Len(a) = Len(b) /\ digitsLess(a, b))

\* 2^32 - 2, the largest array index
MaxArrayIndex == <<"4","2","9","4","9","6","7","2","9","4">>

\* a property key that is an array index: the canonical decimal form of an
\* integer from 0 to 2^32 - 2
IsArrayIndex(key) ==
    /\ Len(key) >= 1
    /\ \A k \in 1..Len(key) : IsDigit(key[k])
    /\ Len(key) > 1 => key[1] # "0"
    /\ ~ numericLess(MaxArrayIndex, key)

\* Object.entries(solutions): the array-index keys in ascending numeric order,
\* then the other keys in the order they were created
ObjectEntries(sols) ==
    LET indexKeys == {k \in 1..Len(sols) : IsArrayIndex(sols[k].model)}
        otherKeys == (1..Len(sols)) \ indexKeys
        nIndex == Cardinality(indexKeys)
        indexAt(j) ==
            CHOOSE k \in indexKeys :
                Cardinality({h \in indexKeys :
                                numericLess(sols[h].model, sols[k].model)}) = j - 1
        otherAt(j) ==
            CHOOSE k \in otherKeys : Cardinality({h \in otherKeys : h < k}) = j - 1
    IN  IF indexKeys = {}
        THEN sols
        ELSE [j \in 1..Len(sols) |->
                IF j <= nIndex THEN sols[indexAt(j)] ELSE sols[otherAt(j - nIndex)]]

\* mutant: the judge phase starts while the last solver item is still to do
BeginJudge_Early ==
    /\ pc = "solve"
    /\ i >= Len(SOLVER_MODELS)
    /\ pc' = "judge"
    /\ solverEntries' = ObjectEntries(solutions)
    /\ si' = 1
    /\ ji' = 1
    /\ UNCHANGED <<critFile, solFile, run, faults, critiques, donePairs, solutions,
                   i, pending, abortAt, loadKind, loadedItems, warned, solverCalls,
                   judgeCalls, outcome, visited, genFailed, wroteSol, nLoaded, clean,
                   parseVars, catalog, callVars, nSaved, prior, owner>>

\* lines 433-436: the solver loop is over; solverEntries = Object.entries(solutions)
BeginJudge ==
    /\ pc = "solve"
    /\ i > Len(SOLVER_MODELS)
    /\ pc' = "judge"
    /\ solverEntries' = ObjectEntries(solutions)
    /\ si' = 1
    /\ ji' = 1
    /\ UNCHANGED <<critFile, solFile, run, faults, critiques, donePairs, solutions,
                   i, pending, abortAt, loadKind, loadedItems, warned, solverCalls,
                   judgeCalls, outcome, visited, genFailed, wroteSol, nLoaded, clean,
                   parseVars, catalog, callVars, nSaved, prior, owner>>

----------------------------------------------------------------------------
(* Judge phase, lines 438-507 *)

solverModel == solverEntries[si].model

\* the html and slug bound by the outer loop's destructuring
solverHtml == solverEntries[si].html

solverSlug == solverEntries[si].slug

judgeModel == JUDGE_MODELS[ji]

curPair == <<solverModel, judgeModel>>

InJudgeLoop == pc = "judge" /\ si <= Len(solverEntries)

\* mutant: the loops never advance
NextUnit_Stay ==
    /\ ji' = ji
    /\ si' = si

\* the next iteration of the nested loops
NextUnit ==
    IF ji < Len(JUDGE_MODELS)
    THEN /\ ji' = ji + 1
         /\ si' = si
    ELSE /\ ji' = 1
         /\ si' = si + 1

\* lines 444-449: the pair is in donePairs
JudgeSkip ==
    /\ InJudgeLoop
    /\ pairKey(solverModel, judgeModel) \in donePairs
    /\ visited' = visited \cup {curPair}
    /\ NextUnit
    /\ UNCHANGED <<critFile, solFile, pc, run, faults, critiques, donePairs, solutions,
                   i, pending, abortAt, loadKind, loadedItems, warned, solverCalls,
                   judgeCalls, outcome, genFailed, wroteSol, nLoaded, clean, parseVars,
                   catalog, solverEntries, callVars, nSaved, prior, owner>>

\* lines 451-459: the pair is not in donePairs: callOpenRouter is issued
JudgeIssue ==
    /\ InJudgeLoop
    /\ pairKey(solverModel, judgeModel) \notin donePairs
    /\ pc' = "judgeCall"
    /\ judgeCalls' = judgeCalls \cup {curPair}
    /\ callLog' = Append(callLog, JudgeCall(solverModel, judgeModel))
    /\ outstanding' = outstanding + 1
    /\ UNCHANGED <<critFile, solFile, run, faults, critiques, donePairs, solutions,
                   i, si, ji, pending, abortAt, loadKind, loadedItems, warned,
                   solverCalls, outcome, visited, genFailed, wroteSol, nLoaded, clean,
                   parseVars, catalog, solverEntries, nSaved, prior, owner>>

\* line 460: parseVerdict(judgeRaw), for each text a judge call returns
parsedReplies == [judgeRaw \in JudgeReplies |-> parseVerdict(judgeRaw)]

\* lines 460-470: the call returns text: parse, push the record, index the pair
JudgeReply ==
    /\ pc = "judgeCall"
    /\ \E judgeRaw \in JudgeReplies :
          LET v == parsedReplies[judgeRaw]
          IN  /\ judgeRaw # UsualJudgeReply => faults < MaxFaults
              /\ faults' = IF judgeRaw = UsualJudgeReply THEN faults ELSE faults + 1
              /\ critiques' = Append(critiques,
                     Critique(solverModel, solverSlug, judgeModel,
                              v.verdict, v.explanation))
    /\ donePairs' = donePairs \cup {pairKey(solverModel, judgeModel)}
    /\ pc' = "judgeWrite"
    /\ outstanding' = outstanding - 1
    /\ UNCHANGED <<critFile, solFile, run, solutions, i, si, ji, pending,
                   abortAt, loadKind, loadedItems, warned, solverCalls, judgeCalls,
                   outcome, visited, genFailed, wroteSol, nLoaded, clean, parseVars,
                   catalog, solverEntries, callLog, nSaved, prior, owner>>

\* mutant: the intermediate save is left to a later rewrite
JudgeWrite_Deferred ==
    /\ pc = "judgeWrite"
    /\ visited' = visited \cup {curPair}
    /\ NextUnit
    /\ pc' = "judge"
    /\ UNCHANGED <<critFile, solFile, run, faults, critiques, donePairs, solutions, i,
                   pending, abortAt, loadKind, loadedItems, warned, solverCalls,
                   judgeCalls, outcome, genFailed, wroteSol, nLoaded, clean, parseVars,
                   catalog, solverEntries, callVars, nSaved, prior, owner>>

\* lines 473-477: the intermediate save
JudgeWrite ==
    /\ pc = "judgeWrite"
    /\ critFile' = stringify(critiques)
    /\ nSaved' = Len(critiques)
    /\ visited' = visited \cup {curPair}
    /\ NextUnit
    /\ pc' = "judge"
    /\ UNCHANGED <<solFile, run, faults, critiques, donePairs, solutions, i, pending,
                   abortAt, loadKind, loadedItems, warned, solverCalls, judgeCalls,
                   outcome, genFailed, wroteSol, nLoaded, clean, parseVars,
                   catalog, solverEntries, callVars, prior, owner>>

\* lines 76-93 of benchmarkUtils.ts: the call throws; control reaches the catch
JudgeCallFail ==
    /\ pc = "judgeCall"
    /\ faults < MaxFaults
    /\ faults' = faults + 1
    /\ \E message \in CallFailures(judgeModel) :
          /\ pending' = message
          /\ genFailed' = genFailed \cup {[pair |-> curPair, message |-> message]}
    /\ pc' = "judgeCatch"
    /\ outstanding' = outstanding - 1
    /\ UNCHANGED <<critFile, solFile, run, critiques, donePairs, solutions, i, si, ji,
                   abortAt, loadKind, loadedItems, warned, solverCalls, judgeCalls,
                   outcome, visited, wroteSol, nLoaded, clean, parseVars,
                   catalog, solverEntries, callLog, nSaved, prior, owner>>

\* mutant: the catch only logs the error
JudgeCatch_LogOnly ==
    /\ pc = "judgeCatch"
    /\ pending' = <<>>
    /\ pc' = "judgeCatchWrite"
    /\ UNCHANGED <<critFile, solFile, run, faults, critiques, donePairs, solutions,
                   i, si, ji, abortAt, loadKind, loadedItems, warned, solverCalls,
                   judgeCalls, outcome, visited, genFailed, wroteSol, nLoaded, clean,
                   parseVars, catalog, solverEntries, callVars, nSaved, prior, owner>>

\* lines 478-499: the catch logs the error, pushes an ERROR record, indexes the pair
JudgeCatch ==
    /\ pc = "judgeCatch"
    /\ critiques' = Append(critiques,
          Critique(solverModel, solverSlug, judgeModel,
                   "ERROR", StringOfError(pending)))
    /\ donePairs' = donePairs \cup {pairKey(solverModel, judgeModel)}
    /\ pending' = <<>>
    /\ pc' = "judgeCatchWrite"
    /\ UNCHANGED <<critFile, solFile, run, faults, solutions, i, si, ji, abortAt,
                   loadKind, loadedItems, warned, solverCalls, judgeCalls, outcome,
                   visited, genFailed, wroteSol, nLoaded, clean, parseVars,
                   catalog, solverEntries, callVars, nSaved, prior, owner>>

\* lines 500-504: the save in the catch
JudgeCatchWrite ==
    /\ pc = "judgeCatchWrite"
    /\ critFile' = stringify(critiques)
    /\ nSaved' = Len(critiques)
    /\ visited' = visited \cup {curPair}
    /\ NextUnit
    /\ pc' = "judge"
    /\ UNCHANGED <<solFile, run, faults, critiques, donePairs, solutions, i, pending,
                   abortAt, loadKind, loadedItems, warned, solverCalls, judgeCalls,
                   outcome, genFailed, wroteSol, nLoaded, clean, parseVars,
                   catalog, solverEntries, callVars, prior, owner>>

\* lines 509-519: both loops are over; main() returns
Finish ==
    /\ pc = "judge"
    /\ si > Len(solverEntries)
    /\ pc' = "done"
    /\ UNCHANGED <<critFile, solFile, run, faults, critiques, donePairs, solutions,
                   i, si, ji, pending, abortAt, loadKind, loadedItems, warned,
                   solverCalls, judgeCalls, outcome, visited, genFailed, wroteSol,
                   nLoaded, clean, parseVars, catalog, solverEntries, callVars, nSaved,
                   prior, owner>>

\* the process is stopped between two steps: its memory is gone, the files stay
Stop ==
    /\ pc \in Running
    /\ faults < MaxFaults
    /\ faults' = faults + 1
    /\ pc' = "idle"
    /\ FreshMemory
    /\ UNCHANGED <<critFile, solFile, run, clean, parseVars, catalog, owner>>

----------------------------------------------------------------------------
(* Failures of file operations *)

\* main() rejects: lines 521-528 log the fatal error and exit with status 1
Abort(step) ==
    /\ faults < MaxFaults
    /\ faults' = faults + 1
    /\ pc' = "aborted"
    /\ abortAt' = step

\* lines 275-299: ensureDirs or the writes before the load throw
StartupFail ==
    /\ pc = "load"
    /\ Abort("startup")
    /\ UNCHANGED <<critFile, solFile, run, critiques, donePairs, solutions, i, si, ji,
                   pending, loadKind, loadedItems, warned, solverCalls, judgeCalls,
                   outcome, visited, genFailed, wroteSol, nLoaded, clean, parseVars,
                   catalog, solverEntries, callVars, nSaved, prior, owner>>

\* lines 311-327: the array is adopted and indexed, logToFile (317) throws, the
\* catch warns and resets critiques; donePairs keeps its keys
LoadLogFail ==
    /\ pc = "load"
    /\ critFile.kind = "array"
    /\ faults < MaxFaults
    /\ faults' = faults + 1
    /\ critiques' = <<>>
    /\ donePairs' = loadCritiques(critFile).donePairs
    /\ warned' = TRUE
    /\ nLoaded' = 0
    /\ nSaved' = 0
    /\ loadKind' = kindOf(critFile)
    /\ loadedItems' = critFile.items
    /\ pc' = "solve"
    /\ i' = 1
    /\ UNCHANGED <<critFile, solFile, run, solutions, si, ji, pending, abortAt,
                   solverCalls, judgeCalls, outcome, visited, genFailed, wroteSol,
                   clean, parseVars, catalog, solverEntries, callVars, prior, owner>>

\* lines 321-326: the warning's appendFile throws inside the catch, which
\* JSON.parse (309) or the failing log line of an adopted array (317) has entered
LoadWarnFail ==
    /\ pc = "load"
    /\ critFile.kind \in {"garbage", "array"}
    /\ Abort("loadWarn")
    /\ loadKind' = kindOf(critFile)
    /\ UNCHANGED <<critFile, solFile, run, critiques, donePairs, solutions, i, si, ji,
                   pending, loadedItems, warned, solverCalls, judgeCalls, outcome,
                   visited, genFailed, wroteSol, nLoaded, clean, parseVars,
                   catalog, solverEntries, callVars, nSaved, prior, owner>>

\* line 344: readFile of the existing artifact throws, outside any try
SolveReadFail ==
    /\ InSolverLoop
    /\ solFile[curOutPath].exists
    /\ Abort("solveRead")
    /\ UNCHANGED <<critFile, solFile, run, critiques, donePairs, solutions, i, si, ji,
                   pending, loadKind, loadedItems, warned, solverCalls, judgeCalls,
                   outcome, visited, genFailed, wroteSol, nLoaded, clean, parseVars,
                   catalog, solverEntries, callVars, nSaved, prior, owner>>

\* lines 352, 360, 369, 445, 451: a log line written outside the try throws
UnitLogFail ==
    /\ InSolverLoop \/ InJudgeLoop
    /\ Abort("unitLog")
    /\ UNCHANGED <<critFile, solFile, run, critiques, donePairs, solutions, i, si, ji,
                   pending, loadKind, loadedItems, warned, solverCalls, judgeCalls,
                   outcome, visited, genFailed, wroteSol, nLoaded, clean, parseVars,
                   catalog, solverEntries, callVars, nSaved, prior, owner>>

\* line 421: writeFile of the artifact throws; the catch (423-430) logs it
SolveWriteFail ==
    /\ pc = "solveWrite"
    /\ faults < MaxFaults
    /\ faults' = faults + 1
    /\ outcome' = [outcome EXCEPT ![i] = "unwritten"]
    /\ pending' = <<>>
    /\ i' = i + 1
    /\ pc' = "solve"
    /\ UNCHANGED <<critFile, solFile, run, critiques, donePairs, solutions, si, ji,
                   abortAt, loadKind, loadedItems, warned, solverCalls, judgeCalls,
                   visited, genFailed, wroteSol, nLoaded, clean, parseVars,
                   catalog, solverEntries, callVars, nSaved, prior, owner>>

\* line 473: the intermediate save throws after the push; control reaches the catch
JudgeWriteFail ==
    /\ pc = "judgeWrite"
    /\ faults < MaxFaults
    /\ faults' = faults + 1
    /\ pending' = IoError
    /\ pc' = "judgeCatch"
    /\ UNCHANGED <<critFile, solFile, run, critiques, donePairs, solutions, i, si, ji,
                   abortAt, loadKind, loadedItems, warned, solverCalls, judgeCalls,
                   outcome, visited, genFailed, wroteSol, nLoaded, clean, parseVars,
                   catalog, solverEntries, callVars, nSaved, prior, owner>>

\* lines 479-490: the catch's own log write throws, inside the catch
JudgeCatchLogFail ==
    /\ pc = "judgeCatch"
    /\ Abort("judgeCatchLog")
    /\ UNCHANGED <<critFile, solFile, run, critiques, donePairs, solutions, i, si, ji,
                   pending, loadKind, loadedItems, warned, solverCalls, judgeCalls,
                   outcome, visited, genFailed, wroteSol, nLoaded, clean, parseVars,
                   catalog, solverEntries, callVars, nSaved, prior, owner>>

\* line 500: the save in the catch throws, inside the catch
JudgeCatchWriteFail ==
    /\ pc = "judgeCatchWrite"
    /\ Abort("judgeCatchWrite")
    /\ UNCHANGED <<critFile, solFile, run, critiques, donePairs, solutions, i, si, ji,
                   pending, loadKind, loadedItems, warned, solverCalls, judgeCalls,
                   outcome, visited, genFailed, wroteSol, nLoaded, clean, parseVars,
                   catalog, solverEntries, callVars, nSaved, prior, owner>>

----------------------------------------------------------------------------
(* Specifications *)

\* file operations succeed; generation calls may fail, the process may be stopped
Next ==
    \/ ForeignFile
    \/ StartRun
    \/ LoadCritiques
    \/ SolveSkip
    \/ SolveIssue
    \/ SolveReply
    \/ SolveWrite
    \/ SolveCallFail
    \/ BeginJudge
    \/ JudgeSkip
    \/ JudgeIssue
    \/ JudgeReply
    \/ JudgeWrite
    \/ JudgeCallFail
    \/ JudgeCatch
    \/ JudgeCatchWrite
    \/ Finish
    \/ Stop

Spec == Init /\ [][Next]_vars

\* file operations may fail as well
NextIO ==
    \/ Next
    \/ StartupFail
    \/ LoadLogFail
    \/ LoadWarnFail
    \/ SolveReadFail
    \/ UnitLogFail
    \/ SolveWriteFail
    \/ JudgeWriteFail
    \/ JudgeCatchLogFail
    \/ JudgeCatchWriteFail

SpecIO == Init /\ [][NextIO]_vars

\* the model list is edited to one of the other lists; file operations succeed
InitAny ==
    /\ catalog \in OtherCatalogs
    /\ Boot

SpecAny == InitAny /\ [][Next]_vars

\* the steps main() takes by itself once started: every await settles, by
\* returning or by throwing
RunStep ==
    \/ LoadCritiques
    \/ SolveSkip
    \/ SolveIssue
    \/ SolveReply
    \/ SolveWrite
    \/ SolveCallFail
    \/ BeginJudge
    \/ JudgeSkip
    \/ JudgeIssue
    \/ JudgeReply
    \/ JudgeWrite
    \/ JudgeCallFail
    \/ JudgeCatch
    \/ JudgeCatchWrite
    \/ Finish
    \/ StartupFail
    \/ LoadLogFail
    \/ LoadWarnFail
    \/ SolveReadFail
    \/ UnitLogFail
    \/ SolveWriteFail
    \/ JudgeWriteFail
    \/ JudgeCatchLogFail
    \/ JudgeCatchWriteFail

\* failures, stops and unusual inputs in one behaviour of the liveness
\* specification; one more failure may follow them if it ends the run by its
\* fatal exit, and the behaviour ends there
LiveFaults == MaxFaults - 1

NextLive ==
    /\ faults <= LiveFaults
    /\ NextIO
    /\ faults' <= LiveFaults \/ pc' = "aborted"

\* every generation call and every file operation eventually returns or fails,
\* and the event loop then resumes main()
SpecLive == Init /\ [][NextLive]_vars /\ WF_vars(RunStep)

----------------------------------------------------------------------------
(* parseVerdict applied to every text over a small alphabet *)

ParseAlphabet == {"y", "E", "S", "x", " ", "\n", "\r"}

BoundedTexts == UNION {[1..n -> ParseAlphabet] : n \in 0..MaxLen}

\* "YES\n\nlooks correct"
ExampleYes ==
    <<"Y","E","S","\n","\n","l","o","o","k","s"," ","c","o","r","r","e","c","t">>

\* "no, it double-books team 4"
ExampleNo ==
    <<"n","o",","," ","i","t"," ","d","o","u","b","l","e","-","b","o","o","k","s",
      " ","t","e","a","m"," ","4">>

\* "maybe"
ExampleMaybe == <<"m","a","y","b","e">>

\* " Yes \r\n  a b \r\n\r\n c\n"
ExampleCrLf ==
    <<" ","Y","e","s"," ","\r","\n"," "," ","a"," ","b"," ","\r","\n","\r","\n",
      " ","c","\n">>

ParseInputs == BoundedTexts \cup {ExampleYes, ExampleNo, ExampleMaybe, ExampleCrLf}

InitParse ==
    /\ catalog = ConfiguredModels
    /\ critFile = AbsentCrit
    /\ solFile = [s \in Slugs |-> NoFile]
    /\ pc = "idle"
    /\ run = 0
    /\ faults = 0
    /\ critiques = <<>>
    /\ donePairs = {}
    /\ solutions = <<>>
    /\ solverEntries = <<>>
    /\ i = 1
    /\ si = 1
    /\ ji = 1
    /\ pending = <<>>
    /\ abortAt = ""
    /\ loadKind = "none"
    /\ loadedItems = <<>>
    /\ warned = FALSE
    /\ solverCalls = {}
    /\ judgeCalls = {}
    /\ outcome = NoOutcome
    /\ visited = {}
    /\ genFailed = {}
    /\ wroteSol = {}
    /\ nLoaded = 0
    /\ clean = TRUE
    /\ callLog = <<>>
    /\ outstanding = 0
    /\ nSaved = 0
    /\ prior = {}
    /\ owner = [s \in Slugs |-> <<>>]
    /\ raw \in ParseInputs
    /\ parsed = NotParsed

\* const { verdict, explanation } = parseVerdict(raw)
Parse ==
    /\ ~ parsed.done
    /\ LET r == parseVerdict(raw)
       IN  parsed' = [done |-> TRUE, verdict |-> r.verdict,
                      explanation |-> r.explanation]
    /\ UNCHANGED <<progVars, raw>>

SpecParse == InitParse /\ [][Parse]_vars

----------------------------------------------------------------------------
(* What the texts say, position by position (no split, trim or join) *)

Ink(t, k) == ~ IsSpace(t[k])

AllBlank(t) == \A k \in 1..Len(t) : ~ Ink(t, k)

\* positions a and b lie on the same line: no "\n" from a to b
SameLine(t, a, b) == \A k \in a..b : t[k] # "\n"

FirstInk(t) == CHOOSE p \in 1..Len(t) : Ink(t, p) /\ \A k \in 1..(p - 1) : ~ Ink(t, k)

\* the last position of the line that holds position p
LineEnd(t, p) ==
    CHOOSE q \in p..Len(t) : SameLine(t, p, q) /\ (q = Len(t) \/ t[q + 1] = "\n")

\* the last non-blank position of the line that holds position p
LastInk(t, p) ==
    CHOOSE q \in p..LineEnd(t, p) :
        Ink(t, q) /\ \A k \in (q + 1)..LineEnd(t, p) : ~ Ink(t, k)

\* the first non-empty line, without the white space around it
FirstLine(t) == SubSeq(t, FirstInk(t), LastInk(t, FirstInk(t)))

EqualsIgnoreCase(a, b) ==
    /\ Len(a) = Len(b)
    /\ \A k \in 1..Len(a) : LowerChar(a[k]) = LowerChar(b[k])

\* the characters of t at the positions in S, in order
CharsAt(t, S) ==
    LET nth(j) == CHOOSE k \in S : Cardinality({h \in S : h < k}) = j - 1
    IN  [j \in 1..Cardinality(S) |-> t[nth(j)]]

\* the positions after the first non-empty line's terminator
RestPositions(t) == (LineEnd(t, FirstInk(t)) + 2)..Len(t)

\* a position of the rest that survives: a character within the non-blank span of
\* its line, or a line break with non-blank text somewhere before and after it
Survives(t, k) ==
    LET R == RestPositions(t)
    IN  IF t[k] = "\n"
        THEN /\ \E a \in R : a < k /\ Ink(t, a)
             /\ \E b \in R : b > k /\ Ink(t, b)
        ELSE /\ \E a \in R : a <= k /\ Ink(t, a) /\ SameLine(t, a, k)
             /\ \E b \in R : b >= k /\ Ink(t, b) /\ SameLine(t, k, b)

ExpectedExplanation(t) ==
    CharsAt(t, {k \in RestPositions(t) : Survives(t, k)})

\* C9: parseVerdict returns ERROR with explanation "Empty response" exactly when the
\* text has no non-blank line; otherwise it returns YES exactly when the first
\* non-empty trimmed line is "YES" in any letter case, and NO for every other
\* first line ("maybe", "no, it double-books team 4"); it returns nothing else.
C9_VerdictDecision ==
    parsed.done =>
        /\ parsed.verdict \in {"YES", "NO", "ERROR"}
        /\ (parsed.verdict = "ERROR") <=> AllBlank(raw)
        /\ AllBlank(raw) => parsed.explanation = EmptyResponse
        /\ ~ AllBlank(raw) =>
              ((parsed.verdict = "YES")
                  <=> EqualsIgnoreCase(FirstLine(raw), <<"Y","E","S">>))
        /\ raw \in {ExampleMaybe, ExampleNo} => parsed.verdict = "NO"
        /\ raw = <<>> => parsed.verdict = "ERROR"

\* a YES read off a second line, in mixed case, with white space around it
C9_Witness ==
    /\ parsed.done
    /\ parsed.verdict = "YES"
    /\ raw = <<" ", "\n", "y", "E", "S">>

\* C10: for a text with a non-blank line, the explanation is the lines after the
\* first non-empty line, each trimmed, joined with newlines, trimmed as a whole;
\* "YES\n\nlooks correct" gives "looks correct", a single line gives "".
C10_Explanation ==
    (parsed.done /\ ~ AllBlank(raw)) =>
        /\ parsed.explanation = ExpectedExplanation(raw)
        /\ raw = ExampleYes =>
              parsed.explanation = <<"l","o","o","k","s"," ","c","o","r","r","e","c","t">>
        /\ (\A k \in 1..Len(raw) : raw[k] # "\n") => parsed.explanation = <<>>

\* the explanation of the example, and one made of two lines
C10_Witness ==
    /\ parsed.done
    /\ raw = ExampleCrLf
    /\ parsed.explanation = <<"a"," ","b","\n","\n","c">>

----------------------------------------------------------------------------
(* The pipeline's properties *)

SolverSet == Range(SOLVER_MODELS)

JudgeSet == Range(JUDGE_MODELS)

\* the records pushed by the current run
AddedThisRun == SubSeq(critiques, nLoaded + 1, Len(critiques))

RecordsFor(records, s, j) ==
    {k \in 1..Len(records) : records[k].solverModel = s /\ records[k].judgeModel = j}

NoDuplicatePairs(records) ==
    \A a, b \in 1..Len(records) :
        (/\ a # b
         /\ Truthy(records[a].solverModel)
         /\ Truthy(records[a].judgeModel)
         /\ records[a].solverModel = records[b].solverModel
         /\ records[a].judgeModel = records[b].judgeModel) => FALSE

\* the text holds "<html" in some letter case
ContainsMarker(text) ==
    \E k \in 1..Len(text) :
        /\ k + 4 <= Len(text)
        /\ EqualsIgnoreCase(SubSeq(text, k, k + 4), <<"<","h","t","m","l">>)

SolvePcs == {"solve", "solveCall", "solveWrite"}

JudgePcs == {"judge", "judgeCall", "judgeWrite", "judgeCatch", "judgeCatchWrite"}

\* C1: starting from an absent or empty critiques.json, whatever the runs did and
\* however they ended, the file never holds two records of the same
\* (solverModel, judgeModel) pair.
C1_Uniqueness ==
    clean => NoDuplicatePairs(critFile.items)

\* C2, as claimed: an artifact written by an earlier run and untouched since is
\* found present, and no solver call is issued for its model.
C2_ResumeAnyText ==
    \A m \in SolverSet :
        (solFile[slugify(m)].exists /\ m \notin wroteSol) => m \notin solverCalls

\* C2, amended: an artifact written by an earlier run that holds the marker
\* "<html" (in any letter case) and is untouched since is found present: no
\* solver call is issued for its model.
C2_ResumeMarkedText ==
    \A k \in 1..Len(SOLVER_MODELS) :
        LET m == SOLVER_MODELS[k]
        IN  (/\ m \notin wroteSol
             /\ solFile[slugify(m)].exists
             /\ ContainsMarker(solFile[slugify(m)].text)) =>
                /\ m \notin solverCalls
                /\ outcome[k] \in {"none", "skipped"}

\* a second run that has skipped a model whose artifact the first run wrote
C2_Witness ==
    /\ run = 2
    /\ pc = "done"
    /\ \E k \in 1..Len(SOLVER_MODELS) :
          /\ outcome[k] = "skipped"
          /\ ContainsMarker(solFile[slugify(SOLVER_MODELS[k])].text)
          /\ SOLVER_MODELS[k] \notin solverCalls

\* the pair's key is the key of a record of the array the load step adopted
KeyLoaded(s, j) ==
    \E k \in 1..Len(loadedItems) :
        /\ Truthy(loadedItems[k].solverModel)
        /\ Truthy(loadedItems[k].judgeModel)
        /\ pairKey(loadedItems[k].solverModel, loadedItems[k].judgeModel)
              = pairKey(s, j)

\* C3: for a pair whose key belongs to a record of the collection loaded at the
\* start of the run, the run issues no judge call and appends no Critique.
C3_CritiqueResume ==
    \A k \in 1..Len(loadedItems) :
        (Truthy(loadedItems[k].solverModel) /\ Truthy(loadedItems[k].judgeModel)) =>
            LET key == pairKey(loadedItems[k].solverModel, loadedItems[k].judgeModel)
            IN  /\ \A p \in judgeCalls : pairKey(p[1], p[2]) # key
                /\ \A h \in (nLoaded + 1)..Len(critiques) :
                      pairKey(critiques[h].solverModel, critiques[h].judgeModel) # key

\* a second run that ended after skipping a loaded pair and judging another
C3_Witness ==
    /\ run = 2
    /\ pc = "done"
    /\ judgeCalls # {}
    /\ \E p \in visited : KeyLoaded(p[1], p[2]) /\ p \notin judgeCalls

\* C4: once the unit of a pair whose judge call failed is over, the run has added
\* exactly one Critique for the pair, with verdict ERROR and the failure's string
\* as explanation, critiques.json holds it, and the pair is indexed as done.
C4_JudgeFailureRecorded ==
    \A f \in genFailed :
        f.pair \in visited =>
            LET s == f.pair[1]
                j == f.pair[2]
                mine == RecordsFor(AddedThisRun, s, j)
            IN  /\ Cardinality(mine) = 1
                /\ \A k \in mine :
                      /\ AddedThisRun[k].verdict = "ERROR"
                      /\ AddedThisRun[k].explanation = StringOfError(f.message)
                      /\ critFile.kind = "array"
                      /\ \E h \in 1..Len(critFile.items) :
                            critFile.items[h] = AddedThisRun[k]
                /\ pairKey(s, j) \in donePairs

\* a run that ended after a failed judge call
C4_Witness ==
    /\ pc = "done"
    /\ \E f \in genFailed :
          /\ f.pair \in visited
          /\ \E h \in 1..Len(critFile.items) :
                /\ critFile.items[h].verdict = "ERROR"
                /\ critFile.items[h].solverModel = f.pair[1]
                /\ critFile.items[h].judgeModel = f.pair[2]

SolutionModels == {solutions[k].model : k \in 1..Len(solutions)}

\* C5: a solver whose generation call failed has no in-memory Solution, no
\* artifact written, no judge call and no Critique in that run; at the normal
\* end of such a run every solver item has been processed and every solver with
\* a Solution has had its unit with every judge.
C5_SolverFailureIsolated ==
    /\ \A k \in 1..Len(SOLVER_MODELS) :
          outcome[k] = "failed" =>
              LET m == SOLVER_MODELS[k]
              IN  /\ m \notin SolutionModels
                  /\ m \notin wroteSol
                  /\ \A j \in JudgeSet :
                        /\ <<m, j>> \notin judgeCalls
                        /\ RecordsFor(AddedThisRun, m, j) = {}
    /\ (pc = "done" /\ \E k \in 1..Len(SOLVER_MODELS) : outcome[k] = "failed") =>
          /\ \A k \in 1..Len(SOLVER_MODELS) : outcome[k] # "none"
          /\ \A k \in 1..Len(SOLVER_MODELS) :
                outcome[k] \in {"skipped", "solved"} =>
                    /\ SOLVER_MODELS[k] \in SolutionModels
                    /\ \A j \in JudgeSet : <<SOLVER_MODELS[k], j>> \in visited

\* a run that ended with one solver failed and another judged
C5_Witness ==
    /\ pc = "done"
    /\ \E k, h \in 1..Len(SOLVER_MODELS) :
          /\ outcome[k] = "failed"
          /\ outcome[h] = "solved"
          /\ h > k
          /\ <<SOLVER_MODELS[h], JUDGE_MODELS[1]>> \in judgeCalls

\* C6: no failure inside a solver or judge unit (generation call, reading or
\* writing the artifact, rewriting the collection, writing a log line) aborts
\* the run.
C6_FailureIsolation ==
    pc = "aborted" => abortAt \in {"startup", "loadWarn"}

CorruptKinds == {"garbage", "nonarray", "badarray"}

\* critiques.json has been rewritten by the current run
Rewritten == Len(critiques) > nLoaded /\ critFile = stringify(critiques)

C8_PhaseOrdering ==
    (judgeCalls # {} \/ Len(critiques) > nLoaded \/ pc \in JudgePcs) =>
        \A k \in 1..Len(SOLVER_MODELS) : outcome[k] # "none"

\* a judge call outstanding after a solver phase in which one solver failed
C8_Witness ==
    /\ pc = "judgeCall"
    /\ \E k \in 1..Len(SOLVER_MODELS) : outcome[k] = "failed"
    /\ \A k \in 1..Len(SOLVER_MODELS) : outcome[k] # "none"

----------------------------------------------------------------------------
(* Artifacts, order and persistence *)

\* the places of the call log that hold a solver call for the model
SolverLog(m) ==
    {n \in 1..Len(callLog) : callLog[n].kind = "solver" /\ callLog[n].solver = m}

\* the artifact exists, holds a non-blank character and holds the marker
Present(file) ==
    file.exists /\ ~ AllBlank(file.text) /\ ContainsMarker(file.text)

\* C11: a solver item is skipped, with no generation call and the artifact's text
\* loaded into memory, only when its artifact exists, is non-blank and holds
\* "<html" in some letter case; a call is issued only when the artifact is absent,
\* blank or markerless; every item is either skipped or called; and once a call
\* has returned and the unit is over, the artifact holds the returned text.
C11_MembershipTest ==
    \A k \in 1..Len(SOLVER_MODELS) :
        LET m == SOLVER_MODELS[k]
            f == solFile[slugify(m)]
        IN  /\ outcome[k] = "skipped" =>
                  /\ Present(f)
                  /\ SolverLog(m) = {}
                  /\ \E e \in Range(solutions) : e.model = m /\ e.html = f.text
            /\ outcome[k] \notin {"none", "skipped"} => SolverLog(m) # {}
            /\ (pc \in {"solveCall", "solveWrite"} /\ i = k) =>
                  /\ ~ Present(f)
                  /\ SolverLog(m) # {}
            /\ \A n \in SolverLog(m) :
                  (callLog[n].reply # <<>> /\ outcome[k] # "none") =>
                      f = FileOf(callLog[n].reply[1])

\* a second run that has skipped one item and is about to overwrite the
\* markerless artifact of another
C11_Witness ==
    /\ run = 2
    /\ pc = "solveWrite"
    /\ pending = UsualSolverReply
    /\ solFile[curOutPath].exists
    /\ ~ AllBlank(solFile[curOutPath].text)
    /\ ~ ContainsMarker(solFile[curOutPath].text)
    /\ \E k \in 1..Len(SOLVER_MODELS) : outcome[k] = "skipped"

\* the first place of x in seq
Place(seq, x) ==
    CHOOSE k \in 1..Len(seq) : seq[k] = x /\ \A h \in 1..(k - 1) : seq[h] # x

\* the solvers with a Solution, in the order the Solutions were obtained
ObtainedOrder == [k \in 1..Len(solutions) |-> solutions[k].model]

\* the unit of (s1, j1) comes before the unit of (s2, j2): outer loop over the
\* solvers in the order obtained, inner loop over the judge list
UnitBefore(s1, j1, s2, j2) ==
    \/ Place(ObtainedOrder, s1) < Place(ObtainedOrder, s2)
    \/ s1 = s2 /\ Place(JUDGE_MODELS, j1) < Place(JUDGE_MODELS, j2)

JudgeLog == {n \in 1..Len(callLog) : callLog[n].kind = "judge"}

\* C12: the judge calls of a run are issued, and its Critiques appended, in the
\* order of an outer loop over the solvers as their Solutions were obtained and
\* an inner loop over the judge list, whatever the identifiers are.
C12_PairOrder ==
    /\ \A a, b \in JudgeLog :
          a < b => UnitBefore(callLog[a].solver, callLog[a].judge,
                              callLog[b].solver, callLog[b].judge)
    /\ \A a, b \in (nLoaded + 1)..Len(critiques) :
          a < b => UnitBefore(critiques[a].solverModel, critiques[a].judgeModel,
                              critiques[b].solverModel, critiques[b].judgeModel)

\* the records whose rewrite returned in an earlier process (one that was
\* stopped, or that ended by itself)
Survivors == prior

C14_CrossProduct ==
    pc = "done" =>
        \A e \in Range(solutions) :
            \A j \in JudgeSet :
                /\ critFile.kind = "array"
                /\ RecordsFor(critFile.items, e.model, j) # {}

\* C15: two distinct identifiers of the solver list have distinct slugs, and a
\* solver item reads, skips on and overwrites only an artifact that the unit of
\* its own model wrote.
C15_ExclusiveArtifacts ==
    \A k \in 1..Len(SOLVER_MODELS) :
        LET m == SOLVER_MODELS[k]
            s == slugify(m)
        IN  /\ run >= 1 =>
                  \A h \in 1..Len(SOLVER_MODELS) :
                      SOLVER_MODELS[h] # m => slugify(SOLVER_MODELS[h]) # s
            /\ outcome[k] = "skipped" => owner[s] = m
            /\ (pc \in SolvePcs /\ i = k /\ solFile[s].exists) => owner[s] = m

\* every non-ERROR record of critiques.json was computed from the text that is
\* now its solver's artifact
Traceable ==
    \A k \in 1..Len(critFile.items) :
        LET r == critFile.items[k]
        IN  r.verdict # "ERROR" =>
                \E e \in prior \cup Persisted :
                    /\ e.rec = r
                    /\ e.text = solFile[slugify(r.solverModel)].text

\* C16: an artifact, once written, is never replaced, and at the normal end of
\* every run (critiques.json holding only what the runs appended) each non-ERROR
\* Critique was computed from the text currently stored as its solver's artifact.
C16_Immutable ==
    [][ /\ \A s \in Slugs : solFile[s].exists => solFile'[s] = solFile[s]
        /\ (clean' /\ pc' = "done") => Traceable' ]_vars

\* the unit of the n-th generation call of the run is over
UnitOver(n) ==
    n < Len(callLog) \/ pc \notin {"solveCall", "solveWrite", "judgeCall",
                                    "judgeWrite", "judgeCatch", "judgeCatchWrite"}

\* C17: when a solver call has returned a text without "<html" (the empty text
\* included) and its unit is over, the artifact holds that text and the in-memory
\* set holds it for the solver; at the normal end of that run the solver's unit
\* with every judge of the list has been visited.
C17_MarkerlessKept ==
    \A n \in 1..Len(callLog) :
        LET c == callLog[n]
        IN  (/\ c.kind = "solver"
             /\ c.reply # <<>>
             /\ UnitOver(n)
             /\ ~ ContainsMarker(c.reply[1])) =>
                /\ solFile[slugify(c.solver)] = FileOf(c.reply[1])
                /\ \E e \in Range(solutions) : e.model = c.solver /\ e.html = c.reply[1]
                /\ pc = "done" => \A j \in JudgeSet : <<c.solver, j>> \in visited

\* a run that ended after judging, with every judge, a solver whose reply was "x"
C17_Witness ==
    /\ pc = "done"
    /\ \E n \in 1..Len(callLog) :
          /\ callLog[n].kind = "solver"
          /\ callLog[n].reply = << <<"x">> >>
          /\ \A j \in JudgeSet : <<callLog[n].solver, j>> \in judgeCalls

\* a is a prefix of b
IsPrefix(a, b) == Len(a) <= Len(b) /\ SubSeq(b, 1, Len(a)) = a

\* a step inside a run that adopted what critiques.json held (or found no file)
InAcceptedRun ==
    /\ loadKind \in {"absent", "array", "badarray"}
    /\ pc \in SolvePcs \cup JudgePcs
    /\ pc' \in SolvePcs \cup JudgePcs \cup {"done", "aborted"}

\* C18: within a run whose loaded collection was accepted, the in-memory
\* collection only grows at its end, and every rewrite of critiques.json is the
\* previous content of the file, in the same order, followed by exactly one new
\* record.
C18_AppendOnly ==
    [][ InAcceptedRun =>
          /\ IsPrefix(critiques, critiques')
          /\ critFile' # critFile =>
                /\ critFile'.kind = "array"
                /\ IsPrefix(critFile.items, critFile'.items)
                /\ Len(critFile'.items) = Len(critFile.items) + 1 ]_vars

\* C19: at most one generation call is outstanding, and whenever a generation
\* call is outstanding the outcome of every earlier unit of the run is persisted:
\* every in-memory Solution is the text of its artifact, and critiques.json holds
\* the whole in-memory collection once the run has added a record to it.
C19_Sequential ==
    /\ outstanding <= 1
    /\ pc \in {"solveCall", "judgeCall"} <=> outstanding = 1
    /\ outstanding = 1 =>
          /\ \A e \in Range(solutions) : solFile[e.slug] = FileOf(e.html)
          /\ Len(critiques) > nLoaded => critFile = stringify(critiques)

\* a judge call outstanding after the run wrote an artifact and appended a record
C19_Witness ==
    /\ pc = "judgeCall"
    /\ outstanding = 1
    /\ wroteSol # {}
    /\ Len(critiques) > nLoaded
    /\ critFile = stringify(critiques)

\* C20: within one run no two generation calls are issued for the same solver
\* identifier, and no two for the same (solver, judge) pair, whatever the calls
\* returned and also when the list holds an identifier more than once.
C20_AtMostOnce ==
    \A a, b \in 1..Len(callLog) :
        (/\ a < b
         /\ callLog[a].kind = callLog[b].kind
         /\ callLog[a].solver = callLog[b].solver
         /\ callLog[a].judge = callLog[b].judge) => FALSE

----------------------------------------------------------------------------
(* Units and termination *)

\* C21: once a judge unit that issued its call is over, the run has added exactly
\* one record for its pair, whether the call, the parsing or the rewrite after
\* the push failed; and the records the run has added never include both a
\* YES/NO record and an ERROR record for one pair.
C21_OneRecordPerUnit ==
    /\ \A p \in judgeCalls :
          p \in visited => Cardinality(RecordsFor(AddedThisRun, p[1], p[2])) = 1
    /\ \A a, b \in 1..Len(AddedThisRun) :
          (/\ AddedThisRun[a].solverModel = AddedThisRun[b].solverModel
           /\ AddedThisRun[a].judgeModel = AddedThisRun[b].judgeModel
           /\ AddedThisRun[a].verdict = "ERROR") => AddedThisRun[b].verdict = "ERROR"

\* where the run is: the load step, then three stages for each solver item,
\* then five stages for each judge unit, then the end
StageOf ==
    CASE pc = "solve" -> 0
      [] pc = "solveCall" -> 1
      [] pc = "solveWrite" -> 2
      [] pc = "judge" -> 0
      [] pc = "judgeCall" -> 1
      [] pc = "judgeWrite" -> 2
      [] pc = "judgeCatch" -> 3
      [] pc = "judgeCatchWrite" -> 4
      [] OTHER -> 0

SolverSpan == 3 * Len(SOLVER_MODELS)

JudgeSpan == 5 * Len(solverEntries) * Len(JUDGE_MODELS)

RunClock ==
    CASE pc = "load" -> 0
      [] pc \in SolvePcs -> 1 + 3 * (i - 1) + StageOf
      [] pc \in JudgePcs ->
            2 + SolverSpan + 5 * ((si - 1) * Len(JUDGE_MODELS) + (ji - 1)) + StageOf
      [] OTHER -> 3 + SolverSpan + 5 * Len(SOLVER_MODELS) * Len(JUDGE_MODELS)

\* the solver units and the judge units the run has started
SolverUnits == IF pc \in SolvePcs /\ i <= Len(SOLVER_MODELS) THEN i ELSE i - 1

JudgeUnits ==
    IF pc \in JudgePcs
    THEN (si - 1) * Len(JUDGE_MODELS) + (IF si <= Len(solverEntries) THEN ji ELSE 0)
    ELSE Cardinality(visited)

\* C22: a run performs at most |solver list| solver units, then at most
\* |solvers with a Solution| x |judge list| judge units; every step it takes moves
\* it forward, so no unit is revisited and the solver phase is never re-entered;
\* and, every call and file operation returning or failing, it reaches its end
\* (normal completion or fatal exit).
C22_Termination ==
    /\ [](pc \in Running \cup {"done", "aborted"} =>
            /\ SolverUnits <= Len(SOLVER_MODELS)
            /\ Len(solverEntries) <= Cardinality(SolutionModels)
            /\ JudgeUnits <= Len(solverEntries) * Len(JUDGE_MODELS)
            /\ pc \in JudgePcs => RunClock <= 2 + SolverSpan + JudgeSpan)
    /\ [][(pc \in Running /\ pc' # "idle") => RunClock' > RunClock]_vars
    /\ (pc \in Running) ~> (pc \in {"done", "aborted", "idle"})

\* a second run that has ended by itself after every solver item and every
\* judge unit, some of them skipped and some of them with a call
C22_Witness ==
    /\ run = 2
    /\ pc = "done"
    /\ \E k \in 1..Len(SOLVER_MODELS) : outcome[k] = "skipped"
    /\ judgeCalls # {}
    /\ judgeCalls # visited
    /\ Len(solverEntries) = Len(SOLVER_MODELS)
    /\ Cardinality(visited) = Len(solverEntries) * Len(JUDGE_MODELS)

====
